---- MODULE Spec2Model ----
(***************************************************************************)
(* Order construction and request signing of nash-protocol:                *)
(* protocol/place_orders/request.rs (limit-order batches, market orders),  *)
(* with the collaborators it calls (State, Signer, Market, the canonical    *)
(* serializer) modelled at their boundary.                                  *)
(***************************************************************************)
EXTENDS Integers, Sequences, FiniteSets, TLC

VARIABLES
    \* ---- limit-order batch (LimitOrdersRequest / LimitOrdersConstructor)
    requests,       \* LimitOrdersRequest.requests
    current_time,   \* i64 argument, as four 16-bit limbs, least significant first
    affiliate,      \* Option<String> argument
    constructors,   \* LimitOrdersConstructor.constructors
    variables,      \* the Vec graphql_request returned
    index,          \* loop counter of signed_graphql_request
    map,            \* local HashMap<String, Value>
    params,         \* local String, as its pieces in order
    calls,          \* local String, as its aliased calls in order
    lpc,            \* position inside the limit-order path
    lresult,        \* what the limit-order path returned
    lfailed,        \* sub-orders for which a step returned Err
    \* ---- shared session state (State)
    asset_nonces,   \* State.asset_nonces: Option<HashMap<String, Vec<u32>>>
    markets,        \* the market catalog behind State::get_market
    provisioned,    \* blockchains the Signer holds key material for
    \* ---- market order (MarketOrdersRequest / MarketOrderConstructor)
    mreq,           \* the MarketOrdersRequest
    mctor,          \* Result<MarketOrderConstructor>
    mnonces,        \* Result<Vec<PayloadNonces>> of make_payload_nonces
    bcsigs,         \* Result of blockchain_signatures
    mresult,        \* Result<MarketOrderMutation>
    fill,           \* Result<FillOrder> of the last make_fill_order call
    fillargs,       \* its arguments
    mpc,            \* position inside the market-order path
    \* ---- RwLock<State> shared by concurrent constructions
    readers,        \* tasks holding a read guard
    writer,         \* task holding the write guard, as a set
    waitq,          \* FIFO queue of tasks awaiting the lock
    tpc,            \* each task's position
    tdone           \* sub-orders each construction has signed

limitVars  == <<requests, current_time, affiliate, constructors, variables, index,
                map, params, calls, lpc, lresult, lfailed>>
stateVars  == <<asset_nonces, markets, provisioned>>
marketVars == <<mreq, mctor, mnonces, bcsigs, mresult, fill, fillargs, mpc>>
lockVars   == <<readers, writer, waitq, tpc, tdone>>
vars       == <<limitVars, stateVars, marketVars, lockVars>>

----------------------------------------------------------------------------
(* Bounds of the model *)

MaxBatch == 3
MaxNameLen == 3
MaxPool == 2
MaxSigned == 2

----------------------------------------------------------------------------
(* Option and Result *)

None == <<>>
Some(x) == <<x>>
Ok(v) == [tag |-> "Ok", value |-> v]
Err(e) == [tag |-> "Err", error |-> e]
Pending == [tag |-> "Pending"]
IsOk(r) == r.tag = "Ok"
IsErr(r) == r.tag = "Err"

Range(s) == {s[i] : i \in DOMAIN s}

----------------------------------------------------------------------------
(* Fixed-width integers.  An i64 is four 16-bit limbs and a u32 two, least  *)
(* significant first, so that truncation and carries keep their real width. *)

LimbBase == 2^16

RECURSIVE add_limbs(_, _, _)
add_limbs(a, b, carry) ==
    IF a = <<>> THEN <<>>
    ELSE LET s == Head(a) + Head(b) + carry
         IN  <<s % LimbBase>> \o add_limbs(Tail(a), Tail(b), s \div LimbBase)

\* i64 + i64 (wrapping at 64 bits)
add_i64(a, b) == add_limbs(a, b, 0)
\* `x as u32` of an i64
as_u32(x) == SubSeq(x, 1, 2)
\* `u as i64` of a u32
u32_as_i64(u) == u \o <<0, 0>>
\* `index as i64` of a usize loop index
usize_as_i64(i) == <<i % LimbBase, i \div LimbBase, 0, 0>>

----------------------------------------------------------------------------
(* Text.  A String is the sequence of its pieces; format!("{}", n) of an    *)
(* integer is its decimal digits.                                           *)

Digit(d) == CASE d = 0 -> "0" [] d = 1 -> "1" [] d = 2 -> "2" [] d = 3 -> "3"
              [] d = 4 -> "4" [] d = 5 -> "5" [] d = 6 -> "6" [] d = 7 -> "7"
              [] d = 8 -> "8" [] d = 9 -> "9"

RECURSIVE Decimal(_)
Decimal(n) == IF n < 10 THEN <<Digit(n)>> ELSE Decimal(n \div 10) \o <<Digit(n % 10)>>

\* format!("payload{}", index), format!("signature{}", index), ...
var_name_same(prefix, i) == <<prefix>> \o Decimal(0)
var_name(prefix, i) == <<prefix>> \o Decimal(i)

\* format!("{:?}", time) of a GoodTilTime timestamp
fmt_debug(time) == <<"DateTime(">> \o Decimal(time) \o <<")">>

----------------------------------------------------------------------------
(* Blockchains, assets, markets *)

Blockchain == {"Ethereum", "Bitcoin", "NEO"}
Asset == {"e", "u", "b", "n"}

\* Asset::blockchain
asset_blockchain(a) ==
    CASE a = "e" -> "Ethereum" [] a = "u" -> "Ethereum"
      [] a = "b" -> "Bitcoin"  [] a = "n" -> "NEO"

\* Asset::name
asset_name(a) == <<a>>

Market(a, b) == [asset_a |-> a, asset_b |-> b]
\* Market::market_name
market_name(m) == asset_name(m.asset_a) \o <<"_">> \o asset_name(m.asset_b)
\* Market::invert
invert(m) == Market(m.asset_b, m.asset_a)
\* Market::blockchains: the chains the market touches, asset_a's first
blockchains(m) ==
    IF asset_blockchain(m.asset_a) = asset_blockchain(m.asset_b)
    THEN <<asset_blockchain(m.asset_a)>>
    ELSE <<asset_blockchain(m.asset_a), asset_blockchain(m.asset_b)>>

----------------------------------------------------------------------------
(* Nonces *)

Crosschain == [kind |-> "Crosschain"]
Value(n) == [kind |-> "Value", value |-> n]

PayloadNonces(f, t, o) == [nonce_from |-> f, nonce_to |-> t, order_nonce |-> o]

map_crosschain_never(nonce, chain, asset) == nonce
map_crosschain(nonce, chain, asset) ==
    IF asset_blockchain(asset) = chain THEN nonce ELSE Crosschain

----------------------------------------------------------------------------
(* Shared session state: State::get_market, State::signer, Signer *)

\* State::get_market
get_market(catalog, name) ==
    IF \E m \in catalog : market_name(m) = name
    THEN Ok(CHOOSE m \in catalog : market_name(m) = name)
    ELSE Err("UnknownMarket")

\* Signer::child_public_key
child_public_key(keys, chain) ==
    IF chain \in keys THEN Ok([chain |-> chain]) ELSE Err("SigningUnavailable")

\* RequestPayloadSignature::empty
empty_signature == [signed_digest |-> None]
\* Signer::sign_canonical_string
sign_canonical_string(canonical) == [signed_digest |-> Some(canonical)]

\* PublicKey::to_address; the Bitcoin key has none (types/blockchain/btc.rs)
to_address(pub_key) ==
    IF pub_key.chain = "Bitcoin"
    THEN Err("This has not been implemented for BTC")
    ELSE Ok([chain |-> pub_key.chain, of |-> pub_key])

\* Address -> eth::Address (TryInto)
eth_address(address) ==
    IF address.chain = "Ethereum" THEN Ok(address) ELSE Err("KeyConversionFailure")

\* PublicKey -> NeoPublicKey (TryInto)
neo_public_key(pub_key) ==
    IF pub_key.chain = "NEO" THEN Ok(pub_key) ELSE Err("KeyConversionFailure")

\* FillOrder::to_market_blockchain_signature
to_market_blockchain_signature(fill_order) ==
    [blockchain |-> fill_order.chain, signed |-> fill_order]

----------------------------------------------------------------------------
(* The canonical serializer *)

Restrict(f, keys) == [k \in keys |-> f[k]]

\* general_canonical_string: the payload without the removed fields, under
\* the operation's name
general_canonical_string(request_name, json, remove_fields) ==
    [operation |-> request_name,
     fields |-> Restrict(json.payload, DOMAIN json.payload \ remove_fields)]

limit_order_canonical_string_all(vars_) ==
    general_canonical_string("place_limit_order", vars_, {})
limit_order_canonical_string(vars_) ==
    general_canonical_string("place_limit_order", vars_, {"blockchain_signatures"})

market_order_canonical_string(vars_) ==
    general_canonical_string("place_market_order", vars_, {"blockchain_signatures"})

----------------------------------------------------------------------------
(* Market resolution: MarketOrdersRequest::make_constructor *)

RECURSIVE split(_)
\* str::split('_')
split(s) ==
    IF s = <<>> THEN << <<>> >>
    ELSE IF Head(s) = "_" THEN << <<>> >> \o split(Tail(s))
    ELSE LET r == split(Tail(s)) IN << <<Head(s)>> \o Head(r) >> \o Tail(r)

\* Iterator::rev
rev(s) == [i \in 1..Len(s) |-> s[Len(s) + 1 - i]]

RECURSIVE join(_)
\* [&str]::join("_")
join(tokens) ==
    IF tokens = <<>> THEN <<>>
    ELSE IF Len(tokens) = 1 THEN tokens[1]
    ELSE Head(tokens) \o <<"_">> \o join(Tail(tokens))

\* Asset::with_amount
with_amount(asset, amount) ==
    IF amount = "invalid" THEN Err("InvalidAmount")
    ELSE Ok([asset |-> asset, amount |-> amount])

resolve_market_direct_only(catalog, name) == get_market(catalog, name)
\* request.rs 64-74: the market, directly or inverted
resolve_market(catalog, name) ==
    LET direct == get_market(catalog, name)
    IN  IF IsOk(direct) THEN direct
        ELSE LET reverse_market == join(rev(split(name)))
                 reversed == get_market(catalog, reverse_market)
             IN  IF IsOk(reversed) THEN Ok(invert(reversed.value)) ELSE reversed

\* MarketOrdersRequest::make_constructor
market_make_constructor(req, catalog) ==
    LET market == resolve_market(catalog, req.market)
    IN  IF IsErr(market) THEN market
        ELSE LET source == with_amount(market.value.asset_a, req.amount)
             IN  IF IsErr(source) THEN source
                 ELSE Ok([client_order_id |-> req.client_order_id,
                          me_amount |-> source.value,
                          market |-> market.value,
                          source |-> source.value,
                          destination |-> market.value.asset_b])

----------------------------------------------------------------------------
(* Nonce resolution: MarketOrderConstructor::make_payload_nonces *)

RECURSIVE for_nonce_tos(_, _, _)
for_nonce_tos(nonce_from, nonce_tos, order_nonce) ==
    IF nonce_tos = <<>> THEN <<>>
    ELSE <<PayloadNonces(nonce_from, Head(nonce_tos), order_nonce)>>
         \o for_nonce_tos(nonce_from, Tail(nonce_tos), order_nonce)

RECURSIVE for_nonce_froms(_, _, _)
for_nonce_froms(nonce_froms, nonce_tos, order_nonce) ==
    IF nonce_froms = <<>> THEN <<>>
    ELSE for_nonce_tos(Head(nonce_froms), nonce_tos, order_nonce)
         \o for_nonce_froms(Tail(nonce_froms), nonce_tos, order_nonce)

as_values(pool) == [i \in 1..Len(pool) |-> Value(pool[i])]

make_payload_nonces_zip(market, nonce_map, time) ==
    IF nonce_map = None THEN Err("Asset nonce map does not exist")
    ELSE LET asset_nonces_ == nonce_map[1]
             from == asset_name(market.asset_a)
             to == asset_name(market.asset_b)
         IN  IF from \notin DOMAIN asset_nonces_
             THEN Err("Asset nonce for source does not exist")
             ELSE IF to \notin DOMAIN asset_nonces_
             THEN Err("Asset nonce for destination a does not exist")
             ELSE LET f == as_values(asset_nonces_[from])
                      t == as_values(asset_nonces_[to])
                      n == IF Len(f) < Len(t) THEN Len(f) ELSE Len(t)
                  IN  Ok([i \in 1..n |->
                            PayloadNonces(f[i], t[i], Value(as_u32(time)))])

make_payload_nonces(market, nonce_map, time) ==
    IF nonce_map = None THEN Err("Asset nonce map does not exist")
    ELSE LET asset_nonces_ == nonce_map[1]
             from == asset_name(market.asset_a)
             to == asset_name(market.asset_b)
         IN  IF from \notin DOMAIN asset_nonces_
             THEN Err("Asset nonce for source does not exist")
             ELSE IF to \notin DOMAIN asset_nonces_
             THEN Err("Asset nonce for destination a does not exist")
             ELSE Ok(for_nonce_froms(as_values(asset_nonces_[from]),
                                     as_values(asset_nonces_[to]),
                                     Value(as_u32(time))))

----------------------------------------------------------------------------
(* Fill orders: MarketOrderConstructor::make_fill_order, blockchain_signatures *)

make_fill_order(ctor, chain, pub_key, nonces) ==
    LET nonce_from == map_crosschain(nonces.nonce_from, chain, ctor.source.asset)
        nonce_to == map_crosschain(nonces.nonce_to, chain, ctor.destination)
        full(tag, who) ==
            [chain |-> tag, account |-> who,
             asset_from |-> ctor.source.asset, asset_to |-> ctor.destination,
             nonce_from |-> nonce_from, nonce_to |-> nonce_to,
             amount |-> ctor.source.amount,
             min_order |-> "MinOrderRate", max_order |-> "MaxOrderRate",
             fee_rate |-> "MinOrderRate", order_nonce |-> nonces.order_nonce]
    IN  CASE chain = "Ethereum" ->
               LET address == to_address(pub_key)
               IN  IF IsErr(address) THEN address
                   ELSE LET eth == eth_address(address.value)
                        IN  IF IsErr(eth) THEN eth ELSE Ok(full("Ethereum", eth.value))
          [] chain = "Bitcoin" ->
               Ok([chain |-> "Bitcoin", nonce_from |-> nonce_from, nonce_to |-> nonce_to])
          [] chain = "NEO" ->
               LET neo_pub_key == neo_public_key(pub_key)
               IN  IF IsErr(neo_pub_key) THEN neo_pub_key
                   ELSE Ok(full("NEO", neo_pub_key.value))

RECURSIVE sign_nonce_groups(_, _, _, _)
\* request.rs 268-271: the inner loop, for one blockchain
sign_nonce_groups(ctor, chain, pub_key, nonces) ==
    IF nonces = <<>> THEN Ok(<<>>)
    ELSE LET fill_order == make_fill_order(ctor, chain, pub_key, Head(nonces))
         IN  IF IsErr(fill_order) THEN fill_order
             ELSE LET rest == sign_nonce_groups(ctor, chain, pub_key, Tail(nonces))
                  IN  IF IsErr(rest) THEN rest
                      ELSE Ok(<<Some(to_market_blockchain_signature(fill_order.value))>>
                              \o rest.value)

RECURSIVE sign_blockchains(_, _, _, _)
\* request.rs 266-272: the outer loop, over the market's blockchains
sign_blockchains(ctor, keys, chains, nonces) ==
    IF chains = <<>> THEN Ok(<<>>)
    ELSE LET pub_key == child_public_key(keys, Head(chains))
         IN  IF IsErr(pub_key) THEN pub_key
             ELSE LET here == sign_nonce_groups(ctor, Head(chains), pub_key.value, nonces)
                  IN  IF IsErr(here) THEN here
                      ELSE LET rest == sign_blockchains(ctor, keys, Tail(chains), nonces)
                           IN  IF IsErr(rest) THEN rest
                               ELSE Ok(here.value \o rest.value)

RECURSIVE sign_blockchains_skipping(_, _, _, _)
sign_blockchains_skipping(ctor, keys, chains, nonces) ==
    IF chains = <<>> THEN Ok(<<>>)
    ELSE LET pub_key == child_public_key(keys, Head(chains))
             rest == sign_blockchains_skipping(ctor, keys, Tail(chains), nonces)
         IN  IF IsErr(pub_key) THEN rest
             ELSE LET here == sign_nonce_groups(ctor, Head(chains), pub_key.value, nonces)
                  IN  IF IsErr(here) \/ IsErr(rest) THEN rest
                      ELSE Ok(here.value \o rest.value)

blockchain_signatures_skipping(ctor, keys, nonces) ==
    sign_blockchains_skipping(ctor, keys, blockchains(ctor.market), nonces)
\* MarketOrderConstructor::blockchain_signatures
blockchain_signatures(ctor, keys, nonces) ==
    sign_blockchains(ctor, keys, blockchains(ctor.market), nonces)

----------------------------------------------------------------------------
(* Limit orders: LimitOrdersRequest, LimitOrdersConstructor *)

ClientOrderIds == {"a", "b"}
Times == {7, 12}
OrderCancellationPolicy ==
    {[kind |-> "GoodTilCancelled"], [kind |-> "ImmediateOrCancel"]}
    \cup {[kind |-> "GoodTilTime", time |-> t] : t \in Times}

LimitOrderRequest ==
    [client_order_id : ClientOrderIds, cancellation_policy : OrderCancellationPolicy,
     market : {<<"e", "_", "b">>}, buy_or_sell : {"Buy"}, allow_taker : {TRUE},
     amount : {"1.5"}, price : {"0.02"}]

\* LimitOrderRequest::make_constructor, for a request whose market resolves
\* and whose amount and price convert
limit_constructor(request, market) ==
    [client_order_id |-> request.client_order_id,
     allow_taker |-> request.allow_taker,
     buy_or_sell |-> request.buy_or_sell,
     cancellation_policy |-> request.cancellation_policy,
     market |-> market,
     me_amount |-> [asset |-> market.asset_a, amount |-> request.amount],
     me_rate |-> request.price,
     source |-> [asset |-> market.asset_a, amount |-> request.amount],
     destination |-> market.asset_b]

cancel_at_never(policy) == None
\* request.rs 109-112
cancel_at(policy) ==
    IF policy.kind = "GoodTilTime" THEN Some(fmt_debug(policy.time)) ELSE None

\* request.rs 125
limit_nonce_order(time, i) == add_i64(u32_as_i64(as_u32(time)), usize_as_i64(i))

\* request.rs 113-138: the Variables of sub-order `i` (0-based)
limit_variables(request, i, time, aff) ==
    [payload |->
        [client_order_id |-> request.client_order_id,
         allow_taker |-> request.allow_taker,
         buy_or_sell |-> request.buy_or_sell,
         cancel_at |-> cancel_at(request.cancellation_policy),
         cancellation_policy |-> request.cancellation_policy.kind,
         market_name |-> market_name(request.market),
         amount |-> request.me_amount,
         nonce_from |-> 1234,
         nonce_to |-> 1234,
         nonce_order |-> limit_nonce_order(time, i),
         timestamp |-> time,
         limit_price |-> [currency_a |-> asset_name(request.market.asset_b),
                          currency_b |-> asset_name(request.market.asset_a),
                          amount |-> request.me_rate],
         blockchain_signatures |-> <<>>],
     affiliate |-> aff,
     signature |-> empty_signature]

\* LimitOrdersConstructor::graphql_request, when every conversion succeeds
graphql_request(ctors, time, aff) ==
    [i \in 1..Len(ctors) |-> limit_variables(ctors[i], i - 1, time, aff)]

\* LimitOrderConstructor::make_payload_nonces: one combination per sub-order
limit_make_payload_nonces(ctor, nonce_map, time) ==
    LET all == make_payload_nonces(ctor.market, nonce_map, time)
    IN  IF IsErr(all) THEN all
        ELSE IF all.value = <<>> THEN Err("MissingNoncePool")
        ELSE Ok(<<Head(all.value)>>)

\* request.rs 157-167: nonces, blockchain signatures and the overall
\* signature of one sub-order, under what State holds when it is read.
\* LimitOrderConstructor::blockchain_signatures signs one fill order per
\* blockchain of the market and nonce combination, as the market order's does.
sign_sub_order(variable, ctor, i, time, nonce_map, signer, canon_ok) ==
    LET nonces == limit_make_payload_nonces(ctor, nonce_map, add_i64(time, usize_as_i64(i)))
    IN  IF IsErr(nonces) THEN nonces
        ELSE IF signer = None THEN Err("SigningUnavailable")
        ELSE LET bc_sigs == blockchain_signatures(ctor, signer[1], nonces.value)
             IN  IF IsErr(bc_sigs) THEN bc_sigs
                 ELSE IF ~canon_ok THEN Err("SerializationFailure")
                 ELSE LET with_bc == [variable EXCEPT
                                        !.payload.blockchain_signatures = bc_sigs.value]
                          canonical_string == limit_order_canonical_string(with_bc)
                      IN  Ok([with_bc EXCEPT
                                !.signature = sign_canonical_string(canonical_string)])

Insert(m, k, v) == [x \in DOMAIN m \cup {k} |-> IF x = k THEN v ELSE m[x]]

\* request.rs 172-173
declare(ps, i, payload, signature, aff) ==
    (IF i = 0 THEN ps ELSE ps \o <<", ">>)
    \o <<"$">> \o payload \o <<": PlaceLimitOrderParams!, ">>
    \o <<"$">> \o signature \o <<": Signature!, ">>
    \o <<"$">> \o aff \o <<": AffiliateDeveloperCode">>

\* request.rs 174-187
call(cs, i, payload, signature, aff) ==
    cs \o <<"response">> \o Decimal(i) \o <<": placeLimitOrder(payload: ">>
    \o <<"$">> \o payload \o <<", signature: ">>
    \o <<"$">> \o signature \o <<", affiliateDeveloperCode: ">>
    \o <<"$">> \o aff \o <<") { id status ordersTillSignState, buyOrSell, ">>
    \o <<"market { name }, placedAt, type }">>

\* request.rs 192-200
limit_mutation(m, ps, cs) ==
    [variables |-> m,
     operation_name |-> "PlaceLimitOrder",
     query |-> <<"mutation PlaceLimitOrder(">> \o ps \o <<") {">> \o cs \o <<"}">>]

\* What State may hold when a sub-order's step reads it
LimitPools == [x \in {<<"e">>, <<"b">>} |-> IF x = <<"e">> THEN <<<<3, 0>>>> ELSE <<<<5, 0>>>>]
NonceViews == {None, Some(LimitPools)}
SignerViews == {None, Some(Blockchain), Some({"Ethereum"})}

LimitFail(i, e) ==
    /\ lresult' = Err(e)
    /\ lfailed' = lfailed \cup {i}
    /\ lpc' = "done"

\* LimitOrdersRequest::make_constructor
LimitOrdersRequest_make_constructor ==
    /\ lpc = "request"
    /\ \E failing \in 0..Len(requests) :
         IF failing = 0
         THEN /\ constructors' = [i \in 1..Len(requests) |->
                                    limit_constructor(requests[i], Market("e", "b"))]
              /\ lpc' = "constructed"
              /\ UNCHANGED <<lresult, lfailed>>
         ELSE /\ LimitFail(failing - 1, "ConstructorFailure")
              /\ UNCHANGED constructors
    /\ UNCHANGED <<requests, current_time, affiliate, variables, index, map, params, calls>>
    /\ UNCHANGED <<stateVars, marketVars, lockVars>>

\* signed_graphql_request, line 151: graphql_request(current_time, affiliate)?
LimitOrdersConstructor_graphql_request ==
    /\ lpc = "constructed"
    /\ \E failing \in 0..Len(constructors) :
         IF failing = 0
         THEN /\ variables' = graphql_request(constructors, current_time, affiliate)
              /\ index' = 0
              /\ lpc' = "loop"
              /\ UNCHANGED <<lresult, lfailed>>
         ELSE /\ LimitFail(failing - 1, "InvalidAmount")
              /\ UNCHANGED <<variables, index>>
    /\ UNCHANGED <<requests, current_time, affiliate, constructors, map, params, calls>>
    /\ UNCHANGED <<stateVars, marketVars, lockVars>>

LimitLoopBody(skip_failed) ==
    /\ lpc = "loop"
    /\ index < Len(variables) /\ index < Len(constructors)
    /\ \E nonce_map \in NonceViews, signer \in SignerViews, canon_ok \in BOOLEAN :
         LET signed == sign_sub_order(variables[index + 1], constructors[index + 1],
                                      index, current_time, nonce_map, signer, canon_ok)
             payload == var_name("payload", index)
             signature == var_name("signature", index)
             aff == var_name("affiliate", index)
         IN  IF IsErr(signed)
             THEN /\ IF skip_failed
                     THEN /\ lfailed' = lfailed \cup {index}
                          /\ index' = index + 1
                          /\ UNCHANGED <<lpc, lresult>>
                     ELSE /\ LimitFail(index, signed.error)
                          /\ UNCHANGED index
                  /\ UNCHANGED <<map, params, calls>>
             ELSE /\ params' = declare(params, index, payload, signature, aff)
                  /\ calls' = call(calls, index, payload, signature, aff)
                  /\ map' = Insert(Insert(Insert(map,
                                payload, signed.value.payload),
                                signature, signed.value.signature),
                                aff, signed.value.affiliate)
                  /\ index' = index + 1
                  /\ UNCHANGED <<lpc, lresult, lfailed>>
    /\ UNCHANGED <<requests, current_time, affiliate, constructors, variables>>
    /\ UNCHANGED <<stateVars, marketVars, lockVars>>

LimitOrdersConstructor_sign_skipping == LimitLoopBody(TRUE)
\* signed_graphql_request, lines 155-191: one iteration of the loop
LimitOrdersConstructor_sign == LimitLoopBody(FALSE)

\* signed_graphql_request, lines 192-200
LimitOrdersConstructor_return ==
    /\ lpc = "loop"
    /\ ~(index < Len(variables) /\ index < Len(constructors))
    /\ lresult' = Ok(limit_mutation(map, params, calls))
    /\ lpc' = "done"
    /\ UNCHANGED <<requests, current_time, affiliate, constructors, variables, index,
                   map, params, calls, lfailed>>
    /\ UNCHANGED <<stateVars, marketVars, lockVars>>

----------------------------------------------------------------------------
(* Market orders: MarketOrdersRequest, MarketOrderConstructor *)

\* MarketOrderConstructor::graphql_request
market_graphql_request(ctor, time, aff) ==
    [payload |->
        [buy_or_sell |-> "Sell",
         client_order_id |-> ctor.client_order_id,
         market_name |-> market_name(ctor.market),
         amount |-> ctor.me_amount,
         nonce_from |-> Some(0),
         nonce_to |-> Some(0),
         nonce_order |-> u32_as_i64(as_u32(time)),
         timestamp |-> time,
         blockchain_signatures |-> <<>>],
     affiliate |-> aff,
     signature |-> empty_signature]

\* graphql::PlaceMarketOrder::build_query
build_query(request) == [variables |-> request, operation_name |-> "PlaceMarketOrder"]

\* MarketOrdersRequest::make_constructor
MarketOrdersRequest_make_constructor ==
    /\ mpc = "request"
    /\ mctor' = market_make_constructor(mreq, markets)
    /\ mpc' = IF IsOk(mctor') THEN "constructed" ELSE "done"
    /\ UNCHANGED <<mreq, mnonces, bcsigs, mresult, fill, fillargs>>
    /\ UNCHANGED <<limitVars, stateVars, lockVars>>

\* MarketOrderConstructor::make_payload_nonces
MarketOrderConstructor_make_payload_nonces ==
    /\ mpc = "constructed"
    /\ mnonces' = make_payload_nonces(mctor.value.market, asset_nonces, current_time)
    /\ mpc' = IF IsOk(mnonces') THEN "nonces" ELSE "done"
    /\ UNCHANGED <<mreq, mctor, bcsigs, mresult, fill, fillargs>>
    /\ UNCHANGED <<limitVars, stateVars, lockVars>>

\* MarketOrderConstructor::signed_graphql_request
MarketOrderConstructor_signed_graphql_request ==
    /\ mpc = "nonces"
    /\ \E amount_ok \in BOOLEAN, canon_ok \in BOOLEAN :
         IF ~amount_ok
         THEN /\ mresult' = Err("InvalidAmount")
              /\ UNCHANGED bcsigs
         ELSE LET request == market_graphql_request(mctor.value, current_time, affiliate)
                  bc_sigs == blockchain_signatures(mctor.value, provisioned, mnonces.value)
              IN  /\ bcsigs' = bc_sigs
                  /\ IF IsErr(bc_sigs) THEN mresult' = bc_sigs
                     ELSE IF ~canon_ok THEN mresult' = Err("SerializationFailure")
                     ELSE LET with_bc == [request EXCEPT
                                            !.payload.blockchain_signatures = bc_sigs.value]
                              canonical_string == market_order_canonical_string(with_bc)
                          IN  mresult' = Ok(build_query([with_bc EXCEPT
                                  !.signature = sign_canonical_string(canonical_string)]))
    /\ mpc' = "done"
    /\ UNCHANGED <<mreq, mctor, mnonces, fill, fillargs>>
    /\ UNCHANGED <<limitVars, stateVars, lockVars>>

NonceInputs == {Crosschain, Value(<<1, 0>>), Value(<<2, 0>>)}

\* MarketOrderConstructor::make_fill_order, called with any chain, key and nonces
MarketOrderConstructor_make_fill_order ==
    /\ mpc = "constructed"
    /\ \E chain \in Blockchain, key_chain \in Blockchain,
          nonce_from \in NonceInputs, nonce_to \in NonceInputs :
         LET nonces == PayloadNonces(nonce_from, nonce_to, Value(as_u32(current_time)))
             pub_key == [chain |-> key_chain]
         IN  /\ fillargs' = [chain |-> chain, pub_key |-> pub_key, nonces |-> nonces]
             /\ fill' = make_fill_order(mctor.value, chain, pub_key, nonces)
    /\ mpc' = "filled"
    /\ UNCHANGED <<mreq, mctor, mnonces, bcsigs, mresult>>
    /\ UNCHANGED <<limitVars, stateVars, lockVars>>

----------------------------------------------------------------------------
(* RwLock<State>: tokio's fair (write-preferring) lock, a FIFO queue of     *)
(* waiters; a read is granted at once only when no one is queued.           *)

Constructions == {"c1", "c2"}
Writers == {"w"}

Waiting(t) == \E i \in DOMAIN waitq : waitq[i].task = t

\* RwLock::read().await / RwLock::write().await: take the guard or queue
Acquire(t, mode, granted, queued) ==
    IF mode = "read" /\ writer = {} /\ waitq = <<>>
    THEN /\ readers' = readers \cup {t}
         /\ tpc' = [tpc EXCEPT ![t] = granted]
         /\ UNCHANGED <<writer, waitq>>
    ELSE IF mode = "write" /\ writer = {} /\ readers = {} /\ waitq = <<>>
    THEN /\ writer' = {t}
         /\ tpc' = [tpc EXCEPT ![t] = granted]
         /\ UNCHANGED <<readers, waitq>>
    ELSE /\ waitq' = Append(waitq, [task |-> t, mode |-> mode, then |-> granted])
         /\ tpc' = [tpc EXCEPT ![t] = queued]
         /\ UNCHANGED <<readers, writer>>

\* the lock hands the guard to the waiter at the head of the queue
Grant ==
    /\ waitq # <<>>
    /\ LET h == Head(waitq)
       IN  /\ writer = {}
           /\ h.mode = "write" => readers = {}
           /\ IF h.mode = "read"
              THEN readers' = readers \cup {h.task} /\ UNCHANGED writer
              ELSE writer' = {h.task} /\ UNCHANGED readers
           /\ tpc' = [tpc EXCEPT ![h.task] = h.then]
    /\ waitq' = Tail(waitq)
    /\ UNCHANGED tdone
    /\ UNCHANGED <<limitVars, stateVars, marketVars>>

\* make_constructor (request.rs 62): state.read().await for the market lookup
LookupLock(t) ==
    /\ tpc[t] = "start"
    /\ Acquire(t, "read", "lookup", "lookup_wait")
    /\ UNCHANGED tdone
    /\ UNCHANGED <<limitVars, stateVars, marketVars>>

\* make_constructor returns: the guard is dropped
LookupDone(t) ==
    /\ tpc[t] = "lookup"
    /\ readers' = readers \ {t}
    /\ tpc' = [tpc EXCEPT ![t] = "loop"]
    /\ UNCHANGED <<writer, waitq, tdone>>
    /\ UNCHANGED <<limitVars, stateVars, marketVars>>

\* request.rs 157 -> 330: make_payload_nonces takes the read lock
NonceLock(t) ==
    /\ tpc[t] = "loop"
    /\ tdone[t] < MaxSigned
    /\ Acquire(t, "read", "nonces", "nonces_wait")
    /\ UNCHANGED tdone
    /\ UNCHANGED <<limitVars, stateVars, marketVars>>

\* make_payload_nonces returns: its guard is dropped
NonceDone(t) ==
    /\ tpc[t] = "nonces"
    /\ readers' = readers \ {t}
    /\ tpc' = [tpc EXCEPT ![t] = "resolved"]
    /\ UNCHANGED <<writer, waitq, tdone>>
    /\ UNCHANGED <<limitVars, stateVars, marketVars>>

\* request.rs 158: let state = state.read().await
StateLock(t) ==
    /\ tpc[t] = "resolved"
    /\ Acquire(t, "read", "locked", "locked_wait")
    /\ UNCHANGED tdone
    /\ UNCHANGED <<limitVars, stateVars, marketVars>>

\* request.rs 159-161: signer(), then blockchain_signatures under the guard
BlockchainSign(t) ==
    /\ tpc[t] = "locked"
    /\ tpc' = [tpc EXCEPT ![t] = "bc_signing"]
    /\ UNCHANGED <<readers, writer, waitq, tdone>>
    /\ UNCHANGED <<limitVars, stateVars, marketVars>>

\* request.rs 164-166: sign_canonical_string under the guard
CanonicalSign(t) ==
    /\ tpc[t] = "bc_signing"
    /\ tpc' = [tpc EXCEPT ![t] = "canonical_signing"]
    /\ UNCHANGED <<readers, writer, waitq, tdone>>
    /\ UNCHANGED <<limitVars, stateVars, marketVars>>

\* request.rs 167-191: the iteration ends and `state` goes out of scope
IterationEnd(t) ==
    /\ tpc[t] = "canonical_signing"
    /\ readers' = readers \ {t}
    /\ tdone' = [tdone EXCEPT ![t] = @ + 1]
    /\ tpc' = [tpc EXCEPT ![t] = "loop"]
    /\ UNCHANGED <<writer, waitq>>
    /\ UNCHANGED <<limitVars, stateVars, marketVars>>

\* nonce-pool consumption: state.write().await
WriteLock(t) ==
    /\ tpc[t] = "idle"
    /\ Acquire(t, "write", "writing", "write_wait")
    /\ UNCHANGED tdone
    /\ UNCHANGED <<limitVars, stateVars, marketVars>>

\* the pool is advanced and the write guard dropped
WriteDone(t) ==
    /\ tpc[t] = "writing"
    /\ writer' = writer \ {t}
    /\ tpc' = [tpc EXCEPT ![t] = "idle"]
    /\ UNCHANGED <<readers, waitq, tdone>>
    /\ UNCHANGED <<limitVars, stateVars, marketVars>>

InSigning(t) == tpc[t] \in {"bc_signing", "canonical_signing"}

----------------------------------------------------------------------------
(* Initial states and specifications *)

U32(n) == <<n % LimbBase, n \div LimbBase>>
I64(l0, l1, l2, l3) == <<l0, l1, l2, l3>>

Catalog == {Market("e", "b"), Market("e", "u"), Market("n", "b")}
FullPools == [x \in {<<"e">>, <<"u">>, <<"b">>, <<"n">>} |-> <<U32(1), U32(2)>>]

LimitIdle ==
    /\ requests = <<>> /\ affiliate = None
    /\ constructors = <<>> /\ variables = <<>> /\ index = 0
    /\ map = <<>> /\ params = <<>> /\ calls = <<>>
    /\ lpc = "idle" /\ lresult = Pending /\ lfailed = {}

MarketIdle ==
    /\ mreq = [market |-> <<>>, amount |-> "1.5", client_order_id |-> "m"]
    /\ mctor = Pending /\ mnonces = Pending /\ bcsigs = Pending /\ mresult = Pending
    /\ fill = Pending /\ fillargs = Pending /\ mpc = "idle"

LockIdle ==
    /\ readers = {} /\ writer = {} /\ waitq = <<>>
    /\ tpc = [t \in Constructions \cup Writers |-> "off"]
    /\ tdone = [t \in Constructions |-> 0]

StateFixed ==
    /\ asset_nonces = Some(FullPools)
    /\ markets = Catalog
    /\ provisioned = Blockchain

BatchesUpTo(n) == UNION {[1..k -> LimitOrderRequest] : k \in 0..n}

\* a batch of limit orders
InitLimit ==
    /\ requests \in BatchesUpTo(MaxBatch)
    /\ current_time = I64(1000, 24000, 0, 0)
    /\ affiliate \in {None, Some("dev")}
    /\ constructors = <<>> /\ variables = <<>> /\ index = 0
    /\ map = <<>> /\ params = <<>> /\ calls = <<>>
    /\ lpc = "request" /\ lresult = Pending /\ lfailed = {}
    /\ StateFixed /\ MarketIdle /\ LockIdle

NextLimit ==
    \/ LimitOrdersRequest_make_constructor
    \/ LimitOrdersConstructor_graphql_request
    \/ LimitOrdersConstructor_sign
    \/ LimitOrdersConstructor_return

SpecLimit == InitLimit /\ [][NextLimit]_vars

\* Times around the points where 16- and 32-bit truncation wraps
LowLimbs == {0, 1000, LimbBase - 2, LimbBase - 1}
HighLimbs == {0, 24000, LimbBase - 1}
TimeInputs == {I64(l0, l1, l2, 0) : l0 \in LowLimbs, l1 \in HighLimbs, l2 \in {0, 1}}

UniformBatch(n) ==
    [i \in 1..n |-> [client_order_id |-> "a",
                     cancellation_policy |-> [kind |-> "GoodTilCancelled"],
                     market |-> <<"e", "_", "b">>, buy_or_sell |-> "Buy",
                     allow_taker |-> TRUE, amount |-> "1.5", price |-> "0.02"]]

\* a batch of limit orders at any time of the clock
InitNonce ==
    /\ requests \in {UniformBatch(n) : n \in 1..MaxBatch}
    /\ current_time \in TimeInputs
    /\ affiliate = None
    /\ constructors = <<>> /\ variables = <<>> /\ index = 0
    /\ map = <<>> /\ params = <<>> /\ calls = <<>>
    /\ lpc = "request" /\ lresult = Pending /\ lfailed = {}
    /\ StateFixed /\ MarketIdle /\ LockIdle

SpecNonce == InitNonce /\ [][NextLimit]_vars

Chars == {"e", "b", "u", "n", "_"}
NamesUpTo(n) == UNION {[1..k -> Chars] : k \in 0..n}
Catalogs == {{}, {Market("e", "b")}, {Market("e", "b"), Market("b", "e")},
             {Market("e", "u"), Market("n", "b")}}

MarketStart ==
    /\ mctor = Pending /\ mnonces = Pending /\ bcsigs = Pending /\ mresult = Pending
    /\ fill = Pending /\ fillargs = Pending /\ mpc = "request"
    /\ current_time = I64(1000, 24000, 1, 0)
    /\ requests = <<>> /\ affiliate = None
    /\ constructors = <<>> /\ variables = <<>> /\ index = 0
    /\ map = <<>> /\ params = <<>> /\ calls = <<>>
    /\ lpc = "idle" /\ lresult = Pending /\ lfailed = {}
    /\ LockIdle

\* a market order for any market name, against several catalogs
InitResolve ==
    /\ mreq \in [market : NamesUpTo(MaxNameLen), amount : {"1.5", "invalid"},
                 client_order_id : {"m"}]
    /\ markets \in Catalogs
    /\ asset_nonces = Some(FullPools)
    /\ provisioned = Blockchain
    /\ MarketStart

NextMarket ==
    \/ MarketOrdersRequest_make_constructor
    \/ MarketOrderConstructor_make_payload_nonces
    \/ MarketOrderConstructor_signed_graphql_request

SpecResolve == InitResolve /\ [][NextMarket]_vars

PoolValues(a) == IF a = "e" THEN {U32(1), U32(2)} ELSE {U32(11), U32(12)}
PoolsOf(a) == UNION {[1..k -> PoolValues(a)] : k \in 0..MaxPool}
WellFormedMaps ==
    {None} \cup
    {Some(f) : f \in
        UNION {{g \in [{<<"u">>} \cup S -> PoolsOf("e") \cup PoolsOf("b")] :
                  \A k \in DOMAIN g : g[k] \in PoolsOf(k[1])}
               : S \in SUBSET {<<"e">>, <<"b">>}}}

\* a market order against any nonce pools and any signer
InitMarket ==
    /\ mreq \in [market : {<<"e", "_", "b">>, <<"b", "_", "e">>, <<"e", "_", "u">>},
                 amount : {"1.5"}, client_order_id : {"m"}]
    /\ markets = Catalog
    /\ asset_nonces \in WellFormedMaps
    /\ provisioned \in {Blockchain, {"Ethereum"}, {"Bitcoin", "NEO"}}
    /\ MarketStart

SpecMarket == InitMarket /\ [][NextMarket]_vars

\* a market order whose constructor is then asked for single fill orders
InitFill ==
    /\ mreq \in [market : {<<"e", "_", "b">>, <<"b", "_", "e">>, <<"e", "_", "u">>,
                           <<"n", "_", "b">>, <<"b", "_", "n">>},
                 amount : {"1.5"}, client_order_id : {"m"}]
    /\ markets = Catalog
    /\ asset_nonces = Some(FullPools)
    /\ provisioned = Blockchain
    /\ MarketStart

NextFill ==
    \/ MarketOrdersRequest_make_constructor
    \/ MarketOrderConstructor_make_fill_order

SpecFill == InitFill /\ [][NextFill]_vars

\* two limit-order constructions and a nonce-pool writer share the lock
InitLock ==
    /\ readers = {} /\ writer = {} /\ waitq = <<>>
    /\ tpc = [t \in Constructions \cup Writers |->
                IF t \in Constructions THEN "start" ELSE "idle"]
    /\ tdone = [t \in Constructions |-> 0]
    /\ LimitIdle /\ MarketIdle /\ StateFixed
    /\ current_time = I64(1000, 24000, 0, 0)

NextLock ==
    \/ Grant
    \/ \E t \in Constructions :
         \/ LookupLock(t)
         \/ LookupDone(t)
         \/ NonceLock(t)
         \/ NonceDone(t)
         \/ StateLock(t)
         \/ BlockchainSign(t)
         \/ CanonicalSign(t)
         \/ IterationEnd(t)
    \/ \E t \in Writers :
         \/ WriteLock(t)
         \/ WriteDone(t)

SpecLock == InitLock /\ [][NextLock]_vars

\* a limit-order batch and a market order, signed against any signer
InitSign ==
    /\ requests \in {UniformBatch(n) : n \in 1..MaxBatch}
    /\ current_time = I64(1000, 24000, 1, 0)
    /\ affiliate \in {None, Some("dev")}
    /\ constructors = <<>> /\ variables = <<>> /\ index = 0
    /\ map = <<>> /\ params = <<>> /\ calls = <<>>
    /\ lpc = "request" /\ lresult = Pending /\ lfailed = {}
    /\ mreq \in [market : {<<"e", "_", "b">>, <<"b", "_", "e">>, <<"e", "_", "u">>},
                 amount : {"1.5"}, client_order_id : {"m"}]
    /\ mctor = Pending /\ mnonces = Pending /\ bcsigs = Pending /\ mresult = Pending
    /\ fill = Pending /\ fillargs = Pending /\ mpc = "request"
    /\ markets = Catalog
    /\ asset_nonces = Some(FullPools)
    /\ provisioned \in {Blockchain, {"Ethereum"}}
    /\ LockIdle

NextSign ==
    \/ NextLimit
    \/ NextMarket

SpecSign == InitSign /\ [][NextSign]_vars

----------------------------------------------------------------------------
(* Properties of the limit-order batch *)

SubOrderKinds == {"payload", "signature", "affiliate"}
ExpectedKey(kind, i) == <<kind>> \o Decimal(i)
ExpectedKeys(n) == {ExpectedKey(kind, i) : kind \in SubOrderKinds, i \in 0..(n - 1)}

ExpectedDeclaration(i) ==
    <<"$">> \o ExpectedKey("payload", i) \o <<": PlaceLimitOrderParams!, ">>
    \o <<"$">> \o ExpectedKey("signature", i) \o <<": Signature!, ">>
    \o <<"$">> \o ExpectedKey("affiliate", i) \o <<": AffiliateDeveloperCode">>

ExpectedCall(i) ==
    <<"response">> \o Decimal(i) \o <<": placeLimitOrder(payload: ">>
    \o <<"$">> \o ExpectedKey("payload", i) \o <<", signature: ">>
    \o <<"$">> \o ExpectedKey("signature", i) \o <<", affiliateDeveloperCode: ">>
    \o <<"$">> \o ExpectedKey("affiliate", i)
    \o <<") { id status ordersTillSignState, buyOrSell, ">>
    \o <<"market { name }, placedAt, type }">>

RECURSIVE ExpectedParams(_)
ExpectedParams(n) ==
    IF n = 0 THEN <<>>
    ELSE IF n = 1 THEN ExpectedDeclaration(0)
    ELSE ExpectedParams(n - 1) \o <<", ">> \o ExpectedDeclaration(n - 1)

RECURSIVE ExpectedCalls(_)
ExpectedCalls(n) ==
    IF n = 0 THEN <<>> ELSE ExpectedCalls(n - 1) \o ExpectedCall(n - 1)

\* C1: a returned batch of N >= 1 sub-orders binds exactly the 3N variables
\* payload{i}, signature{i}, affiliate{i} for i = 0..N-1, its query declares
\* the triples and the aliased calls response{i} in increasing order of i,
\* each call naming its own three variables, and payload{i} carries the
\* fields of input constructor i.
C1_BatchIndexCorrespondence ==
    (IsOk(lresult) /\ Len(requests) >= 1) =>
        LET n == Len(requests)
            mutation == lresult.value
        IN  /\ DOMAIN mutation.variables = ExpectedKeys(n)
            /\ Cardinality(DOMAIN mutation.variables) = 3 * n
            /\ mutation.query = <<"mutation PlaceLimitOrder(">> \o ExpectedParams(n)
                                \o <<") {">> \o ExpectedCalls(n) \o <<"}">>
            /\ \A i \in 0..(n - 1) :
                 LET payload == mutation.variables[ExpectedKey("payload", i)]
                     input == constructors[i + 1]
                 IN  /\ input.client_order_id = requests[i + 1].client_order_id
                     /\ input.cancellation_policy = requests[i + 1].cancellation_policy
                     /\ payload.client_order_id = input.client_order_id
                     /\ payload.cancellation_policy = input.cancellation_policy.kind
                     /\ payload.market_name = market_name(input.market)
                     /\ payload.amount = input.me_amount
                     /\ payload.limit_price.amount = input.me_rate
                     /\ mutation.variables[ExpectedKey("affiliate", i)] = affiliate

\* a batch of three sub-orders, not all alike, was returned
C1_Witness ==
    /\ IsOk(lresult)
    /\ Len(requests) = 3
    /\ requests[1] # requests[2]
    /\ requests[2] # requests[3]

\* C2: once any step has failed for any sub-order the operation returns an
\* error and no mutation, and a returned mutation holds all N sub-orders,
\* each with its blockchain signatures and its overall signature, none
\* having failed.
C2_NoPartialBatch ==
    /\ lfailed # {} => (IsErr(lresult) /\ lpc = "done")
    /\ IsErr(lresult) => DOMAIN lresult = {"tag", "error"}
    /\ IsOk(lresult) =>
         LET n == Len(requests)
             bound == lresult.value.variables
         IN  /\ lfailed = {}
             /\ Cardinality(DOMAIN bound) = 3 * n
             /\ \A i \in 0..(n - 1) :
                  /\ ExpectedKeys(n) \subseteq DOMAIN bound
                  /\ bound[ExpectedKey("payload", i)].blockchain_signatures # <<>>
                  /\ bound[ExpectedKey("signature", i)] # empty_signature

\* a step failed for a later sub-order after earlier ones had been signed,
\* and an error was returned
C2_Witness ==
    /\ IsErr(lresult)
    /\ Len(requests) = 3
    /\ index = 2
    /\ lfailed = {2}
    /\ DOMAIN map = ExpectedKeys(2)

\* C8: sub-order i's cancel_at is present exactly when its own policy is
\* good-until-time, and is then the text of that policy's timestamp.
C8_CancelAtMapping ==
    \A i \in DOMAIN variables :
        LET policy == requests[i].cancellation_policy
            got == variables[i].payload.cancel_at
        IN  /\ (got # None) <=> (policy.kind = "GoodTilTime")
            /\ policy.kind = "GoodTilTime" =>
                 got = Some(<<"DateTime(">> \o Decimal(policy.time) \o <<")">>)
            /\ IsOk(lresult) =>
                 lresult.value.variables[ExpectedKey("payload", i - 1)].cancel_at = got

\* a returned batch mixes a good-until-time sub-order with two others, one
\* of them good-until-time at another timestamp
C8_Witness ==
    /\ IsOk(lresult)
    /\ Len(requests) = 3
    /\ requests[1].cancellation_policy = [kind |-> "GoodTilTime", time |-> 12]
    /\ requests[2].cancellation_policy = [kind |-> "ImmediateOrCancel"]
    /\ requests[3].cancellation_policy = [kind |-> "GoodTilTime", time |-> 7]

\* C10: the nonce_order of sub-order i's payload equals the order nonce of
\* that sub-order's blockchain fill orders.
C10_OrderNonceAgreement ==
    \A i \in 0..(Len(requests) - 1) :
        ExpectedKey("payload", i) \in DOMAIN map =>
            LET payload == map[ExpectedKey("payload", i)]
            IN  \A k \in DOMAIN payload.blockchain_signatures :
                    LET fill_order == payload.blockchain_signatures[k][1].signed
                    IN  "order_nonce" \in DOMAIN fill_order =>
                            payload.nonce_order = u32_as_i64(fill_order.order_nonce.value)

----------------------------------------------------------------------------
(* Properties of the canonical signing input *)

OtherBlockchainSignatures ==
    {<<>>, <<Some([blockchain |-> "Bitcoin", signed |-> [chain |-> "Bitcoin"]])>>}
OtherSignatures == {empty_signature, sign_canonical_string("other")}

SameLimitSigningInput(request) ==
    \A sigs \in OtherBlockchainSignatures, signature \in OtherSignatures :
        limit_order_canonical_string(
            [request EXCEPT !.payload.blockchain_signatures = sigs,
                            !.signature = signature])
            = limit_order_canonical_string(request)

SameMarketSigningInput(request) ==
    \A sigs \in OtherBlockchainSignatures, signature \in OtherSignatures :
        market_order_canonical_string(
            [request EXCEPT !.payload.blockchain_signatures = sigs,
                            !.signature = signature])
            = market_order_canonical_string(request)

\* C4: the signing input does not depend on the blockchain-signature list
\* or on the signature field, so a request signed with its blockchain
\* signatures attached carries the overall signature of the same request
\* without them.
C4_SignatureOverProjection ==
    /\ \A i \in DOMAIN variables :
         SameLimitSigningInput(variables[i])
    /\ \A i \in DOMAIN variables :
         ExpectedKey("payload", i - 1) \in DOMAIN map =>
            LET sent == [payload |-> map[ExpectedKey("payload", i - 1)],
                         signature |-> map[ExpectedKey("signature", i - 1)],
                         affiliate |-> map[ExpectedKey("affiliate", i - 1)]]
            IN  /\ sent.payload.blockchain_signatures # <<>>
                /\ SameLimitSigningInput(sent)
                /\ sent.signature = sign_canonical_string(
                                        limit_order_canonical_string(variables[i]))
    /\ IsOk(mresult) =>
         LET sent == mresult.value.variables
             unsigned == market_graphql_request(mctor.value, current_time, affiliate)
         IN  /\ SameMarketSigningInput(sent)
             /\ sent.signature = sign_canonical_string(
                                     market_order_canonical_string(unsigned))

\* a limit-order batch and a market order were both returned signed, with
\* blockchain signatures attached
C4_Witness ==
    /\ IsOk(lresult) /\ Len(requests) >= 2
    /\ IsOk(mresult)
    /\ mresult.value.variables.payload.blockchain_signatures # <<>>
    /\ mresult.value.variables.signature # empty_signature

----------------------------------------------------------------------------
(* Properties of market orders *)

Native(asset, chain) == asset_blockchain(asset) = chain

\* C3 as amended: the adjusted nonce is the supplied nonce when the asset's
\* native chain is the target chain and Crosschain otherwise, on the from
\* side and on the to side independently and for every chain; for a numeric
\* nonce the result is Crosschain exactly when the chains differ.
C3_CrosschainRule ==
    (mpc = "filled" /\ IsOk(fill)) =>
        LET chain == fillargs.chain
            given == fillargs.nonces
            source == mctor.value.source.asset
            destination == mctor.value.destination
        IN  /\ fill.value.chain = chain
            /\ fill.value.nonce_from =
                 IF Native(source, chain) THEN given.nonce_from ELSE Crosschain
            /\ fill.value.nonce_to =
                 IF Native(destination, chain) THEN given.nonce_to ELSE Crosschain
            /\ given.nonce_from # Crosschain =>
                 (fill.value.nonce_from = Crosschain <=> ~Native(source, chain))
            /\ given.nonce_to # Crosschain =>
                 (fill.value.nonce_to = Crosschain <=> ~Native(destination, chain))

\* C3 as stated: for every nonce the adjusted nonce is Crosschain if and
\* only if the asset's native chain differs from the target chain, and is
\* otherwise the supplied nonce.
C3_CrosschainIff ==
    (mpc = "filled" /\ IsOk(fill)) =>
        LET chain == fillargs.chain
            given == fillargs.nonces
            source == mctor.value.source.asset
            destination == mctor.value.destination
        IN  /\ fill.value.nonce_from = Crosschain <=> ~Native(source, chain)
            /\ Native(source, chain) => fill.value.nonce_from = given.nonce_from
            /\ fill.value.nonce_to = Crosschain <=> ~Native(destination, chain)
            /\ Native(destination, chain) => fill.value.nonce_to = given.nonce_to

\* an Ethereum fill order of a market from Ethereum to Bitcoin keeps the
\* numeric from nonce and has a Crosschain to nonce
C3_Witness ==
    /\ mpc = "filled" /\ IsOk(fill)
    /\ fillargs.chain = "Ethereum"
    /\ mctor.value.source.asset = "e" /\ mctor.value.destination = "b"
    /\ fillargs.nonces.nonce_from = Value(<<1, 0>>)
    /\ fillargs.nonces.nonce_to = Value(<<2, 0>>)
    /\ fill.value.nonce_from = Value(<<1, 0>>)
    /\ fill.value.nonce_to = Crosschain

NoRepeat(s) == \A i, j \in DOMAIN s : s[i] = s[j] => i = j

\* C5: with both pools present the list has |from_pool| x |to_pool|
\* entries, the entry for the i-th from nonce and the j-th to nonce is at
\* one position, every pair of pooled values appears exactly once when no
\* pool repeats a value, and every entry has the order nonce of the call;
\* with the map or a pool missing the call fails.
C5_NonceExpansion ==
    mnonces # Pending =>
        LET market == mctor.value.market
            from == asset_name(market.asset_a)
            to == asset_name(market.asset_b)
            missing == \/ asset_nonces = None
                       \/ from \notin DOMAIN asset_nonces[1]
                       \/ to \notin DOMAIN asset_nonces[1]
        IN  IF missing THEN IsErr(mnonces) /\ DOMAIN mnonces = {"tag", "error"}
            ELSE LET from_pool == asset_nonces[1][from]
                     to_pool == asset_nonces[1][to]
                     list == mnonces.value
                 IN  /\ IsOk(mnonces)
                     /\ Len(list) = Len(from_pool) * Len(to_pool)
                     /\ \A i \in DOMAIN from_pool, j \in DOMAIN to_pool :
                          list[(i - 1) * Len(to_pool) + j] =
                              [nonce_from |-> Value(from_pool[i]),
                               nonce_to |-> Value(to_pool[j]),
                               order_nonce |-> Value(SubSeq(current_time, 1, 2))]
                     /\ (NoRepeat(from_pool) /\ NoRepeat(to_pool)) =>
                          \A i \in DOMAIN from_pool, j \in DOMAIN to_pool :
                             Cardinality({k \in DOMAIN list :
                                 /\ list[k].nonce_from = Value(from_pool[i])
                                 /\ list[k].nonce_to = Value(to_pool[j])}) = 1

\* two pools of two different nonces each were expanded into four entries
C5_Witness ==
    /\ IsOk(mnonces)
    /\ Len(mnonces.value) = 4
    /\ NoRepeat(mnonces.value)
    /\ mctor.value.market = Market("b", "e")

\* C6: a name that resolves is used as it is; otherwise the name with its
\* '_'-separated tokens reversed is looked up and that market is used
\* inverted, so "B_A" with only "A_B" listed gives source B and destination
\* A; when neither resolves the call fails with the unknown-market error.
C6_MarketResolution ==
    mctor # Pending =>
        LET name == mreq.market
            direct == {m \in markets : market_name(m) = name}
            reversed == {m \in markets : market_name(m) = join(rev(split(name)))}
            valid == mreq.amount # "invalid"
        IN  /\ (direct # {} /\ valid) =>
                 /\ IsOk(mctor)
                 /\ mctor.value.market \in direct
                 /\ mctor.value.source.asset = mctor.value.market.asset_a
                 /\ mctor.value.destination = mctor.value.market.asset_b
            /\ (direct = {} /\ reversed # {} /\ valid) =>
                 /\ IsOk(mctor)
                 /\ \E m \in reversed :
                      /\ mctor.value.market = [asset_a |-> m.asset_b, asset_b |-> m.asset_a]
                      /\ mctor.value.source.asset = m.asset_b
                      /\ mctor.value.destination = m.asset_a
            /\ (direct = {} /\ reversed = {}) => mctor = Err("UnknownMarket")
            /\ IsErr(mctor) => DOMAIN mctor = {"tag", "error"}
            /\ \A a, b \in Asset :
                 (/\ name = <<b, "_", a>>
                  /\ [asset_a |-> a, asset_b |-> b] \in markets
                  /\ [asset_a |-> b, asset_b |-> a] \notin markets
                  /\ valid) =>
                     /\ IsOk(mctor)
                     /\ mctor.value.source.asset = b
                     /\ mctor.value.destination = a

\* "b_e" was requested with only "e_b" listed
C6_Witness ==
    /\ mreq.market = <<"b", "_", "e">>
    /\ markets = {Market("e", "b")}
    /\ IsOk(mctor)
    /\ mctor.value.source.asset = "b"
    /\ mctor.value.destination = "e"

\* C7: blockchain_signatures yields one signed fill order per (blockchain of
\* the market, supplied nonce combination), blockchain by blockchain, so
\* |blockchains| x |combinations| entries (twice the combinations for a
\* market on two chains); the signed payload carries exactly this list; and
\* when a blockchain's key cannot be derived the call fails with no list.
C7_SignatureMultiplicity ==
    bcsigs # Pending =>
        LET market == mctor.value.market
            chains == IF Native(market.asset_a, asset_blockchain(market.asset_b))
                      THEN <<asset_blockchain(market.asset_a)>>
                      ELSE <<asset_blockchain(market.asset_a),
                             asset_blockchain(market.asset_b)>>
            groups == mnonces.value
            count == Len(groups)
        IN  /\ Range(chains) \subseteq provisioned =>
                 /\ IsOk(bcsigs)
                 /\ Len(bcsigs.value) = Len(chains) * count
                 /\ Len(chains) = 2 => Len(bcsigs.value) = 2 * count
                 /\ \A c \in DOMAIN chains, k \in DOMAIN groups :
                      LET entry == bcsigs.value[(c - 1) * count + k]
                      IN  /\ entry # None
                          /\ entry[1].blockchain = chains[c]
                          /\ entry[1].signed.chain = chains[c]
                          /\ entry[1].signed.nonce_from =
                               IF Native(market.asset_a, chains[c])
                               THEN groups[k].nonce_from ELSE Crosschain
                          /\ entry[1].signed.nonce_to =
                               IF Native(market.asset_b, chains[c])
                               THEN groups[k].nonce_to ELSE Crosschain
            /\ ~(Range(chains) \subseteq provisioned) =>
                 /\ IsErr(bcsigs) /\ DOMAIN bcsigs = {"tag", "error"}
                 /\ IsErr(mresult)
            /\ IsOk(mresult) =>
                 /\ IsOk(bcsigs)
                 /\ mresult.value.variables.payload.blockchain_signatures = bcsigs.value

\* a market on two chains was signed for four nonce combinations
C7_Witness ==
    /\ IsOk(mresult)
    /\ Len(mnonces.value) = 4
    /\ Len(bcsigs.value) = 8
    /\ mresult.value.variables.payload.blockchain_signatures = bcsigs.value

----------------------------------------------------------------------------
(* Properties of the shared lock *)

\* C9: no construction ever holds or awaits the write lock, and while a
\* construction is inside a signing call no other construction's market
\* lookup or nonce-pool read is kept waiting for the lock, a writer waiting
\* or not.
C9_SigningBlocksNoReader ==
    /\ \A t \in Constructions : t \notin writer
    /\ \A i \in DOMAIN waitq : waitq[i].task \in Constructions => waitq[i].mode = "read"
    /\ \A p \in Constructions :
         InSigning(p) => \A q \in Constructions \ {p} : ~Waiting(q)

====
